---- MODULE Spec2Model ----
(***************************************************************************)
(* A model of contraplay's parser.py: the Song/Playlist data model, the    *)
(* two source adapters, the intersection and the lyric cache.              *)
(*                                                                         *)
(* A Python str is a sequence of one-character strings; a Song is a record *)
(* [title, artist, album, duration]; a Playlist is a record [songs, tag].  *)
(* Every operation returns a tagged record: [kind |-> "ok", ...] or        *)
(* [kind |-> "raise", error |-> ...] when the Python call raises.          *)
(***************************************************************************)
EXTENDS Integers, Sequences, FiniteSets, TLC

VARIABLES
    \* get_lyrics: the lyrics_cache directory and the last call
    cache, calls, sleeps, invocations, lastSong, lastAnswer, lastRet, lastRaised,
    \* Song.create
    raw, created,
    \* Song.__eq__
    eq_a, eq_b, eq_ab, eq_ba,
    \* playlist_intersection
    playlist_1, playlist_2, intersection,
    \* parse_filepath
    file, parsed,
    \* parse_spotify_url
    total, offset, songs, requests, sp_result

lyricVars == <<cache, calls, sleeps, invocations, lastSong, lastAnswer, lastRet, lastRaised>>
createVars == <<raw, created>>
eqVars == <<eq_a, eq_b, eq_ab, eq_ba>>
interVars == <<playlist_1, playlist_2, intersection>>
fileVars == <<file, parsed>>
spotifyVars == <<total, offset, songs, requests, sp_result>>
vars == <<lyricVars, createVars, eqVars, interVars, fileVars, spotifyVars>>

\* ---------------------------------------------------------------- bounds
MaxCalls == 3          \* get_lyrics invocations in one run
MaxDurationLen == 4    \* characters of a duration string
MaxSeconds == 3        \* integer durations range over -MaxSeconds..MaxSeconds
MaxTitleLen == 5       \* characters of a title compared by __eq__
MaxPlaylistLen == 2    \* songs of each playlist handed to playlist_intersection
MaxLines == 10         \* lines of a flat file
MaxTracks == 201       \* tracks of the catalog playlist

\* ---------------------------------------------------------------- values
None == [kind |-> "None"]
Pending == [kind |-> "pending"]
Raise(e) == [kind |-> "raise", error |-> e]

Str(n, Alphabet) == UNION {[1..k -> Alphabet] : k \in 0..n}

\* str.lower() on the characters the model uses
LowerChar(c) ==
    CASE c = "A" -> "a"
      [] c = "B" -> "b"
      [] c = "X" -> "x"
      [] OTHER -> c

lower(s) == [i \in 1..Len(s) |-> LowerChar(s[i])]

IsSpace(c) == c \in {" ", "\t", "\n", "\r"}

RECURSIVE lstrip(_)
lstrip(s) == IF s # <<>> /\ IsSpace(Head(s)) THEN lstrip(Tail(s)) ELSE s

RECURSIVE rstrip(_)
rstrip(s) ==
    IF s # <<>> /\ IsSpace(s[Len(s)]) THEN rstrip(SubSeq(s, 1, Len(s) - 1)) ELSE s

\* str.strip()
strip(s) == rstrip(lstrip(s))

\* ---------------------------------------------------------------- Song
Song(title, artist, album, duration) ==
    [title |-> title, artist |-> artist, album |-> album, duration |-> duration]

\* str.split(sep) for a one-character separator: the parts between separators
RECURSIVE split(_, _)
split(s, sep) ==
    IF \A i \in 1..Len(s) : s[i] # sep
    THEN <<s>>
    ELSE LET i == CHOOSE k \in 1..Len(s) :
                      s[k] = sep /\ \A m \in 1..(k - 1) : s[m] # sep
         IN  <<SubSeq(s, 1, i - 1)>> \o split(SubSeq(s, i + 1, Len(s)), sep)

Digits == {"0", "1"}

DigitVal(c) == IF c = "1" THEN 1 ELSE 0

RECURSIVE DecimalValue(_)
DecimalValue(ds) ==
    IF ds = <<>> THEN 0
    ELSE 10 * DecimalValue(SubSeq(ds, 1, Len(ds) - 1)) + DigitVal(ds[Len(ds)])

\* int(s): surrounding whitespace is dropped, then an optional sign and at
\* least one digit; anything else raises ValueError
int(s) ==
    LET t == strip(s)
        signed == t # <<>> /\ Head(t) \in {"-", "+"}
        body == IF signed THEN Tail(t) ELSE t
    IN  IF body # <<>> /\ \A i \in 1..Len(body) : body[i] \in Digits
        THEN [kind |-> "ok",
              value |-> IF signed /\ Head(t) = "-"
                        THEN 0 - DecimalValue(body) ELSE DecimalValue(body)]
        ELSE Raise("ValueError")

IntRaw(n) == [type |-> "int", int |-> n]
StrRaw(s) == [type |-> "str", str |-> s]

\* Song._parse_duration: an int is returned as it is; a str is split on ":"
\* into exactly two parts (the unpacking raises ValueError otherwise), each
\* parsed by int()
_parse_duration(r) ==
    IF r.type = "int"
    THEN [kind |-> "ok", value |-> r.int]
    ELSE LET parts == split(r.str, ":")
         IN  IF Len(parts) # 2
             THEN Raise("ValueError")
             ELSE LET minutes == int(parts[1])
                      seconds == int(parts[2])
                  IN  IF minutes.kind = "raise" \/ seconds.kind = "raise"
                      THEN Raise("ValueError")
                      ELSE [kind |-> "ok",
                            value |-> minutes.value * 60 + seconds.value]

\* Song.create
create(title, artist, album, duration) ==
    LET d == _parse_duration(duration)
    IN  IF d.kind = "raise" THEN d
        ELSE [kind |-> "ok", song |-> Song(title, artist, album, d.value)]

\* ------------------------------------------------- difflib.SequenceMatcher
\* Indices are Python's: 0-based, [lo, hi) half open; a[i + 1] is Python's a[i].

\* the length of the common run that ends at a[i], b[j] inside the window
RECURSIVE RunEndingAt(_, _, _, _, _, _)
RunEndingAt(a, b, i, j, alo, blo) ==
    IF i < alo \/ j < blo THEN 0
    ELSE IF a[i + 1] # b[j + 1] THEN 0
    ELSE 1 + RunEndingAt(a, b, i - 1, j - 1, alo, blo)

\* SequenceMatcher.find_longest_match with no junk: the longest common block of
\* a[alo:ahi] and b[blo:bhi]; of the longest, the one starting earliest in a,
\* and of those the one starting earliest in b. <<i, j, size>>.
find_longest_match(a, b, alo, ahi, blo, bhi) ==
    LET Ends == (alo..(ahi - 1)) \X (blo..(bhi - 1))
        j2len == [e \in Ends |-> RunEndingAt(a, b, e[1], e[2], alo, blo)]
        bestsize == IF Ends = {} THEN 0
                    ELSE CHOOSE k \in {j2len[e] : e \in Ends} :
                             \A e \in Ends : j2len[e] <= k
    IN  IF bestsize = 0 THEN <<alo, blo, 0>>
        ELSE LET Longest == {e \in Ends : j2len[e] = bestsize}
                 best == CHOOSE e \in Longest :
                            \A f \in Longest :
                                \/ e[1] < f[1]
                                \/ e[1] = f[1] /\ e[2] <= f[2]
             IN  <<best[1] - bestsize + 1, best[2] - bestsize + 1, bestsize>>

\* the summed sizes of SequenceMatcher.get_matching_blocks: the longest block,
\* then recursively the pieces to its left and to its right
RECURSIVE matches(_, _, _, _, _, _)
matches(a, b, alo, ahi, blo, bhi) ==
    LET m == find_longest_match(a, b, alo, ahi, blo, bhi)
        i == m[1]
        j == m[2]
        k == m[3]
    IN  IF k = 0 THEN 0
        ELSE k
             + (IF alo < i /\ blo < j THEN matches(a, b, alo, i, blo, j) ELSE 0)
             + (IF i + k < ahi /\ j + k < bhi
                THEN matches(a, b, i + k, ahi, j + k, bhi) ELSE 0)

\* SequenceMatcher(None, a, b).ratio() >= 0.8, in integers: the ratio is
\* 2.0 * matches / (len(a) + len(b)), and 1.0 when both are empty
ratio_at_least_080(a, b) ==
    LET T == Len(a) + Len(b)
        M == matches(a, b, 0, Len(a), 0, Len(b))
    IN  T = 0 \/ 10 * M >= 4 * T

\* Song.__eq__(self, that)
equals(self, that) == ratio_at_least_080(lower(self.title), lower(that.title))

\* ---------------------------------------------------------------- Playlist
PyStr(s) == [kind |-> "str", value |-> s]

\* Playlist.__init__(songs, tag): self.songs = songs; self.tag = None
Playlist(songs_, tag) == [songs |-> songs_, tag |-> None]

\* ---------------------------------------------------------------- lyric cache
\* the characters the pattern [^-\w\s] keeps: "-", word characters, whitespace
IsWordChar(c) == c \in {"a", "b", "c", "x", "z", "A", "B", "X", "_", "0", "1"}

Kept(c) == c = "-" \/ IsWordChar(c) \/ IsSpace(c)

RECURSIVE RemoveForbidden(_)
RemoveForbidden(s) ==
    IF s = <<>> THEN <<>>
    ELSE IF Kept(Head(s)) THEN <<Head(s)>> \o RemoveForbidden(Tail(s))
    ELSE RemoveForbidden(Tail(s))

\* _sanitize: drop the forbidden characters, strip, " " -> "_", lower
_sanitize(text) ==
    LET t == strip(RemoveForbidden(text))
    IN  lower([i \in 1..Len(t) |-> IF t[i] = " " THEN "_" ELSE t[i]])

\* the cache file's name: f"{_sanitize(song.artist)}-{_sanitize(song.title)}.txt"
fname(song) ==
    _sanitize(song.artist) \o <<"-">> \o _sanitize(song.title)
        \o <<".", "t", "x", "t">>

\* Path.write_text on a POSIX build: "\n" is written as os.linesep, "\n"
write_text(text) == text

\* Path.read_text: text mode with universal newlines, "\r\n" and "\r" read as "\n"
RECURSIVE read_text(_)
read_text(data) ==
    IF data = <<>> THEN <<>>
    ELSE IF Head(data) = "\r"
    THEN IF Len(data) >= 2 /\ data[2] = "\n"
         THEN <<"\n">> \o read_text(SubSeq(data, 3, Len(data)))
         ELSE <<"\n">> \o read_text(Tail(data))
    ELSE <<Head(data)>> \o read_text(Tail(data))

\* cache_path.exists()
exists(files, name) == name \in DOMAIN files

Store(files, name, data) ==
    [n \in DOMAIN files \cup {name} |-> IF n = name THEN data ELSE files[n]]

\* What the provider does when genius.search_song is called: it returns a
\* result carrying lyrics, returns None, or raises.
Found(lyrics) == [kind |-> "found", lyrics |-> lyrics]
NoMatch == [kind |-> "none", lyrics |-> <<>>]
Raises == [kind |-> "raise", lyrics |-> <<>>]

\* What one call of get_lyrics did: the directory afterwards, the value
\* returned, the provider calls and sleeps made, whether it raised.
Reply(files, ret, nCalls, nSleeps, raised) ==
    [files |-> files, ret |-> ret, calls |-> nCalls, sleeps |-> nSleeps,
     raised |-> raised]

\* the existence check placed after the fetch
get_lyrics_fetch_first(files, song, answer) ==
    LET cache_path == fname(song)
        slept == IF answer.kind = "raise" THEN 0 ELSE 1
    IN  IF exists(files, cache_path)
        THEN Reply(files, read_text(files[cache_path]), 1, slept, FALSE)
        ELSE IF answer.kind = "found"
        THEN Reply(Store(files, cache_path, write_text(answer.lyrics)),
                   answer.lyrics, 1, 1, FALSE)
        ELSE Reply(files, <<>>, 1, slept, FALSE)

\* the file written before the result is tested
get_lyrics_write_unchecked(files, song, answer) ==
    LET cache_path == fname(song)
    IN  IF exists(files, cache_path)
        THEN Reply(files, read_text(files[cache_path]), 0, 0, FALSE)
        ELSE IF answer.kind = "raise"
        THEN Reply(files, <<>>, 1, 0, FALSE)
        ELSE Reply(Store(files, cache_path, write_text(answer.lyrics)),
                   answer.lyrics, 1, 1, FALSE)

\* no existence check: every call fetches and rewrites the file
get_lyrics_always_fetch(files, song, answer) ==
    LET cache_path == fname(song)
    IN  IF answer.kind = "raise"
        THEN Reply(files, <<>>, 1, 0, FALSE)
        ELSE IF answer.kind = "found"
        THEN Reply(Store(files, cache_path, write_text(answer.lyrics)),
                   answer.lyrics, 1, 1, FALSE)
        ELSE Reply(files, <<>>, 1, 1, FALSE)

\* get_lyrics(song, genius) on the cache directory `files`, with `answer` what
\* the provider does if it is called
get_lyrics(files, song, answer) ==
    LET cache_path == fname(song)
    IN  IF exists(files, cache_path)
        THEN Reply(files, read_text(files[cache_path]), 0, 0, FALSE)
        ELSE IF answer.kind = "raise"
        THEN \* search_song raised: the sleep is skipped, the except clause prints
             Reply(files, <<>>, 1, 0, FALSE)
        ELSE IF answer.kind = "found"
        THEN Reply(Store(files, cache_path, write_text(answer.lyrics)),
                   answer.lyrics, 1, 1, FALSE)
        ELSE Reply(files, <<>>, 1, 1, FALSE)

\* ---------------------------------------------------------------- idle parts
\* Each specification below runs one operation; the variables of the others
\* keep these values.
LyricIdle ==
    /\ cache = <<>> /\ calls = 0 /\ sleeps = 0 /\ invocations = 0
    /\ lastSong = None /\ lastAnswer = None /\ lastRet = <<>> /\ lastRaised = FALSE
CreateIdle == raw = None /\ created = Pending
EqIdle == eq_a = None /\ eq_b = None /\ eq_ab = Pending /\ eq_ba = Pending
InterIdle == playlist_1 = None /\ playlist_2 = None /\ intersection = Pending
FileIdle == file = <<>> /\ parsed = Pending
SpotifyIdle ==
    /\ total = 0 /\ offset = 0 /\ songs = <<>> /\ requests = <<>>
    /\ sp_result = Pending

\* ---------------------------------------------------------------- get_lyrics
LyricSongs ==
    { Song(<<"x">>, <<"A", " ", "b">>, <<"c">>, 1),
      Song(<<" ", "X">>, <<"a", "_", "b", "!">>, <<"c">>, 2),
      Song(<<"c">>, <<"a", "-", "b">>, <<"c">>, 3),
      Song(<<"b", "-", "c">>, <<"a">>, <<"c">>, 4),
      Song(<<"z">>, <<"z">>, <<"c">>, 5) }

Lyrics == { <<>>, <<"l">>, <<"l", "\r", "m">>, <<"m", "\r", "\n">> }

Answers == {Found(t) : t \in Lyrics} \cup {NoMatch, Raises}

LyricInit ==
    /\ LyricIdle /\ CreateIdle /\ EqIdle /\ InterIdle /\ FileIdle /\ SpotifyIdle

\* one call of get_lyrics, the provider answering as `answer` if it is asked
GetLyrics ==
    /\ invocations < MaxCalls
    /\ \E song \in LyricSongs, answer \in Answers :
          LET r == get_lyrics(cache, song, answer)
          IN  /\ cache' = r.files
              /\ calls' = calls + r.calls
              /\ sleeps' = sleeps + r.sleeps
              /\ invocations' = invocations + 1
              /\ lastSong' = song
              /\ lastAnswer' = answer
              /\ lastRet' = r.ret
              /\ lastRaised' = r.raised
    /\ UNCHANGED <<createVars, eqVars, interVars, fileVars, spotifyVars>>

Next == GetLyrics

Spec == LyricInit /\ [][Next]_vars

\* C2: every provider call get_lyrics attempts is followed by the delay before
\* get_lyrics returns, whatever the call's outcome: as many sleeps as calls.
C2_DelayAfterEveryProviderCall == sleeps = calls

\* a get_lyrics step, for the song lastSong' and the provider answer lastAnswer'
LyricStep == invocations' = invocations + 1

C3_ProviderFailureLeavesCacheAndReturnsEmpty ==
    [][(/\ LyricStep
        /\ fname(lastSong') \notin DOMAIN cache
        /\ lastAnswer'.kind \in {"none", "raise"})
         => /\ cache' = cache
            /\ lastRet' = <<>>
            /\ ~lastRaised']_vars

\* a failed fetch for a key with no entry, beside an entry of another key
C3_Witness ==
    /\ invocations >= 2
    /\ lastAnswer.kind = "raise"
    /\ fname(lastSong) \notin DOMAIN cache
    /\ cache # <<>>
    /\ lastRet = <<>>

\* C10: an entry is created only by a successful provider fetch for its key
\* (holding the fetched lyrics), and an existing entry is never overwritten or
\* removed.
C10_EntriesCreatedBySuccessNeverChanged ==
    [][/\ DOMAIN cache \subseteq DOMAIN cache'
       /\ \A n \in DOMAIN cache : cache'[n] = cache[n]
       /\ \A n \in DOMAIN cache' \ DOMAIN cache :
            /\ LyricStep
            /\ n = fname(lastSong')
            /\ lastAnswer'.kind = "found"
            /\ cache'[n] = lastAnswer'.lyrics]_vars

\* two entries, and a third call that found its key's entry in place although
\* the provider had other lyrics to give
C10_Witness ==
    /\ invocations = 3 /\ calls = 2
    /\ Cardinality(DOMAIN cache) = 2
    /\ lastAnswer.kind = "found"
    /\ fname(lastSong) \in DOMAIN cache
    /\ cache[fname(lastSong)] # lastAnswer.lyrics

\* ---------------------------------------------------------------- Song.create
DurationChars == {"0", "1", "-", ":", " ", "x"}

RawDurations ==
    {IntRaw(n) : n \in (0 - MaxSeconds)..MaxSeconds}
        \cup {StrRaw(d) : d \in Str(MaxDurationLen, DurationChars)}

CreateInit ==
    /\ raw \in RawDurations /\ created = Pending
    /\ LyricIdle /\ EqIdle /\ InterIdle /\ FileIdle /\ SpotifyIdle

\* Song.create(title, artist, album, raw)
Create ==
    /\ created = Pending
    /\ created' = create(<<"x">>, <<"a">>, <<"b">>, raw)
    /\ UNCHANGED <<raw, lyricVars, eqVars, interVars, fileVars, spotifyVars>>

SpecCreate == CreateInit /\ [][Create]_vars

\* C7: every Song that Song.create returns has a non-negative duration,
\* whether the duration came as an integer or as a colon-delimited string.
C7_CreatedDurationIsNonNegative ==
    created.kind = "ok" => created.song.duration >= 0

\* ---------------------------------------------------------------- Song.__eq__
TitleChars == {"a", "b", "A"}

Titles == Str(MaxTitleLen, TitleChars)

LowerTitles == Str(MaxTitleLen, {"a", "b"})

Titled(t) == Song(t, <<"a">>, <<"b">>, 1)

EqInit ==
    /\ eq_a \in Titles /\ eq_b \in LowerTitles
    /\ eq_ab = Pending /\ eq_ba = Pending
    /\ LyricIdle /\ CreateIdle /\ InterIdle /\ FileIdle /\ SpotifyIdle

\* a == b and b == a, for two songs titled eq_a and eq_b
Compare ==
    /\ eq_ab = Pending
    /\ eq_ab' = [kind |-> "ok", value |-> equals(Titled(eq_a), Titled(eq_b))]
    /\ eq_ba' = [kind |-> "ok", value |-> equals(Titled(eq_b), Titled(eq_a))]
    /\ UNCHANGED <<eq_a, eq_b, lyricVars, createVars, interVars, fileVars, spotifyVars>>

SpecEq == EqInit /\ [][Compare]_vars

\* C6: song equality is symmetric: equals(a, b) = equals(b, a) for all songs.
C6_EqualsIsSymmetric ==
    eq_ab.kind = "ok" => eq_ab.value = eq_ba.value

\* ------------------------------------------------------ playlist_intersection
\* the inner loop: s1 appended once for every s2 of the second playlist, in
\* its order, with s1 == s2
RECURSIVE inner_loop(_, _)
inner_loop(s1, songs_2) ==
    IF songs_2 = <<>> THEN <<>>
    ELSE (IF equals(s1, Head(songs_2)) THEN <<s1>> ELSE <<>>)
             \o inner_loop(s1, Tail(songs_2))

\* the outer loop over the first playlist
RECURSIVE outer_loop(_, _)
outer_loop(songs_1, songs_2) ==
    IF songs_1 = <<>> THEN <<>>
    ELSE inner_loop(Head(songs_1), songs_2) \o outer_loop(Tail(songs_1), songs_2)

\* the inner loop appending s2, and comparing s2 == s1
RECURSIVE inner_loop_s2(_, _)
inner_loop_s2(s1, songs_2) ==
    IF songs_2 = <<>> THEN <<>>
    ELSE (IF equals(Head(songs_2), s1) THEN <<Head(songs_2)>> ELSE <<>>)
             \o inner_loop_s2(s1, Tail(songs_2))

RECURSIVE outer_loop_s2(_, _)
outer_loop_s2(songs_1, songs_2) ==
    IF songs_1 = <<>> THEN <<>>
    ELSE inner_loop_s2(Head(songs_1), songs_2)
             \o outer_loop_s2(Tail(songs_1), songs_2)

playlist_intersection_appends_s2(p1, p2) ==
    Playlist(outer_loop_s2(p1.songs, p2.songs), PyStr("intersect"))

playlist_intersection(p1, p2) ==
    Playlist(outer_loop(p1.songs, p2.songs), PyStr("intersect"))

\* "aaaba" == "abaab" holds and "abaab" == "aaaba" does not; "AAABA" equals
\* "aaaba" both ways, and "abaab" equals neither of the two
InterSongs ==
    { Song(<<"a", "a", "a", "b", "a">>, <<"a">>, <<"b">>, 1),
      Song(<<"a", "b", "a", "a", "b">>, <<"b">>, <<"b">>, 2),
      Song(<<"A", "A", "A", "B", "A">>, <<"b">>, <<"a">>, 3) }

SongLists == Str(MaxPlaylistLen, InterSongs)

InterInit ==
    /\ playlist_1 \in {Playlist(l, PyStr("Ryan")) : l \in SongLists}
    /\ playlist_2 \in {Playlist(l, PyStr("Rachel")) : l \in SongLists}
    /\ intersection = Pending
    /\ LyricIdle /\ CreateIdle /\ EqIdle /\ FileIdle /\ SpotifyIdle

Intersect ==
    /\ intersection = Pending
    /\ intersection' =
          [kind |-> "ok", playlist |-> playlist_intersection(playlist_1, playlist_2)]
    /\ UNCHANGED <<playlist_1, playlist_2, lyricVars, createVars, eqVars,
                   fileVars, spotifyVars>>

SpecIntersect == InterInit /\ [][Intersect]_vars

\* C4: the result holds, for each song a of A in A's order, a itself once per
\* song b of B with equals(a, b), the repeats of one a adjacent; its length is
\* the number of matching pairs.
C4_IntersectionIsOrderedMultiset ==
    intersection.kind = "ok" =>
        LET A == playlist_1.songs
            B == playlist_2.songs
            R == intersection.playlist.songs
            Eq == [i \in 1..Len(A) |-> [j \in 1..Len(B) |-> equals(A[i], B[j])]]
            \* the matching pairs (i, j) with i below n
            Before(n) ==
                Cardinality({p \in (1..Len(A)) \X (1..Len(B)) :
                                p[1] < n /\ Eq[p[1]][p[2]]})
        IN  /\ Len(R) = Before(Len(A) + 1)
            /\ \A i \in 1..Len(A) :
                  \A k \in (Before(i) + 1)..Before(i + 1) : R[k] = A[i]

\* A = [X, Y], B = [Y, X'] with X matching Y (one way only) and X', and Y
\* matching itself alone: the result is [X, X, Y], X being A's instance
C4_Witness ==
    /\ intersection.kind = "ok"
    /\ Len(playlist_1.songs) = 2 /\ Len(playlist_2.songs) = 2
    /\ playlist_1.songs[1] # playlist_1.songs[2]
    /\ playlist_1.songs[1] \notin {playlist_2.songs[1], playlist_2.songs[2]}
    /\ ~equals(playlist_2.songs[1], playlist_1.songs[1])
    /\ intersection.playlist.songs =
          <<playlist_1.songs[1], playlist_1.songs[1], playlist_1.songs[2]>>

\* C5: the playlist playlist_intersection returns carries the tag "intersect".
C5_IntersectionIsTaggedIntersect ==
    intersection.kind = "ok" => intersection.playlist.tag = PyStr("intersect")

\* ---------------------------------------------------------------- parse_filepath
ChunkSize == 5

Min(a, b) == IF a < b THEN a ELSE b

\* [line.strip() for line in song_chunk if line.strip()]
RECURSIVE non_blank(_)
non_blank(chunk) ==
    IF chunk = <<>> THEN <<>>
    ELSE (IF strip(Head(chunk)) # <<>> THEN <<strip(Head(chunk))>> ELSE <<>>)
             \o non_blank(Tail(chunk))

\* the while loop of parse_filepath, from the lines not yet read and the
\* songs appended so far; a malformed chunk is skipped instead of raising
RECURSIVE read_chunks_skipping(_, _)
read_chunks_skipping(lines, acc) ==
    IF lines = <<>>
    THEN [kind |-> "ok", playlist |-> Playlist(acc, PyStr(""))]
    ELSE LET n == Min(ChunkSize, Len(lines))
             song_chunk == non_blank(SubSeq(lines, 1, n))
             rest == SubSeq(lines, n + 1, Len(lines))
         IN  IF Len(song_chunk) # ChunkSize
             THEN read_chunks_skipping(rest, acc)
             ELSE LET c == create(song_chunk[2], song_chunk[3], song_chunk[4],
                                  StrRaw(song_chunk[5]))
                  IN  IF c.kind = "raise" THEN c
                      ELSE read_chunks_skipping(rest, Append(acc, c.song))

parse_filepath_skips_malformed(lines) == read_chunks_skipping(lines, <<>>)

\* the while loop of parse_filepath, from the lines not yet read and the
\* songs appended so far
RECURSIVE read_chunks(_, _)
read_chunks(lines, acc) ==
    IF lines = <<>>
    THEN [kind |-> "ok", playlist |-> Playlist(acc, PyStr(""))]
    ELSE LET n == Min(ChunkSize, Len(lines))
             song_chunk == non_blank(SubSeq(lines, 1, n))
             rest == SubSeq(lines, n + 1, Len(lines))
         IN  IF Len(song_chunk) # ChunkSize
             THEN Raise("Malformed entry")
             ELSE LET c == create(song_chunk[2], song_chunk[3], song_chunk[4],
                                  StrRaw(song_chunk[5]))
                  IN  IF c.kind = "raise" THEN c
                      ELSE read_chunks(rest, Append(acc, c.song))

\* parse_filepath on a file holding the given lines
parse_filepath(lines) == read_chunks(lines, <<>>)

\* a whitespace-only line, a line that is no duration, a duration line
FileLines == { <<" ">>, <<"x">>, <<"1", ":", "1">> }

FileInit ==
    /\ file \in Str(MaxLines, FileLines) /\ parsed = Pending
    /\ LyricIdle /\ CreateIdle /\ EqIdle /\ InterIdle /\ SpotifyIdle

ParseFile ==
    /\ parsed = Pending
    /\ parsed' = parse_filepath(file)
    /\ UNCHANGED <<file, lyricVars, createVars, eqVars, interVars, spotifyVars>>

SpecFile == FileInit /\ [][ParseFile]_vars

\* the file cut into chunks of 5 lines, the last one possibly shorter
NChunks == (Len(file) + 4) \div 5
ChunkLines(k) == SubSeq(file, 5 * (k - 1) + 1, Min(5 * k, Len(file)))
IsNonBlank(line) == \E i \in 1..Len(line) : ~IsSpace(line[i])
NonBlankCount(k) ==
    Cardinality({i \in 1..Len(ChunkLines(k)) : IsNonBlank(ChunkLines(k)[i])})
\* the song of a chunk of 5 non-blank lines, if its duration line parses
ChunkSong(k) ==
    LET c == ChunkLines(k)
    IN  create(strip(c[2]), strip(c[3]), strip(c[4]), StrRaw(strip(c[5])))
Structural(k) == NonBlankCount(k) # 5
BadDuration(k) == NonBlankCount(k) = 5 /\ ChunkSong(k).kind = "raise"

\* C8 as stated: every chunk with 5 non-blank lines gives one song per chunk in
\* file order; any chunk with fewer gives the structural error and no playlist.
C8_FullChunksParseShortChunkFails ==
    parsed # Pending =>
        /\ (\A k \in 1..NChunks : ~Structural(k)) =>
              /\ parsed.kind = "ok"
              /\ Len(parsed.playlist.songs) = NChunks
        /\ (\E k \in 1..NChunks : Structural(k)) =>
              parsed = Raise("Malformed entry")

\* C8 amended: a playlist with one song per chunk in file order when every
\* chunk has 5 non-blank lines and a duration line that parses; otherwise the
\* error of the first offending chunk (structural when it has fewer than 5
\* non-blank lines, the duration's ValueError when its fifth does not parse)
\* and no playlist; an empty file gives the empty playlist.
C8_ParsesUpToFirstOffendingChunk ==
    parsed # Pending =>
        LET Offending == {k \in 1..NChunks : Structural(k) \/ BadDuration(k)}
        IN  IF Offending = {}
            THEN /\ parsed.kind = "ok"
                 /\ Len(parsed.playlist.songs) = NChunks
                 /\ \A k \in 1..NChunks :
                       parsed.playlist.songs[k] = ChunkSong(k).song
            ELSE LET first == CHOOSE k \in Offending : \A m \in Offending : k <= m
                 IN  parsed = IF Structural(first)
                              THEN Raise("Malformed entry")
                              ELSE Raise("ValueError")

\* ten lines, two well-formed records with different titles, parsed in order
C8_Witness ==
    /\ Len(file) = 10
    /\ parsed.kind = "ok"
    /\ Len(parsed.playlist.songs) = 2
    /\ parsed.playlist.songs[1].title # parsed.playlist.songs[2].title

\* ---------------------------------------------------------------- parse_spotify_url
PageLimit == 100

\* ", ".join(names)
RECURSIVE join(_)
join(names) ==
    IF names = <<>> THEN <<>>
    ELSE IF Len(names) = 1 THEN names[1]
    ELSE names[1] \o <<",", " ">> \o join(Tail(names))

\* The catalog's playlist: its i-th track. Track i lasts i seconds and 999 ms.
Track(i) ==
    [name |-> <<"x">>,
     artists |-> IF i % 2 = 1 THEN << <<"a">> >> ELSE << <<"a">>, <<"b">> >>,
     album |-> <<"b">>,
     duration_ms |-> 1000 * i + 999]

\* sp.playlist_items(url, offset, limit) of a provider serving the next up to
\* `limit` tracks of a list of n tracks, with the list's total
playlist_items(n, off, limit) ==
    [items |-> [k \in 1..(IF off >= n THEN 0 ELSE Min(limit, n - off)) |->
                    Track(off + k)],
     total |-> n]

\* the Song made of one item: int(t["duration_ms"] / 1000) truncates
item_song(t) ==
    create(t.name, join(t.artists), t.album, IntRaw(t.duration_ms \div 1000)).song

\* the break test made before `offset += len(page["items"])`
loop_done_before_add(off, page) == off - Len(page.items) >= page.total

\* offset >= page["total"], with offset already advanced
loop_done(off, page) == off >= page.total

SpotifyInit ==
    /\ total \in 0..MaxTracks
    /\ offset = 0 /\ songs = <<>> /\ requests = <<>> /\ sp_result = Pending
    /\ LyricIdle /\ CreateIdle /\ EqIdle /\ InterIdle /\ FileIdle

\* one turn of the while loop, the page request answered
PageServed ==
    /\ sp_result = Pending
    /\ LET page == playlist_items(total, offset, PageLimit)
           got == songs \o [k \in 1..Len(page.items) |-> item_song(page.items[k])]
           off == offset + Len(page.items)
       IN  /\ requests' = Append(requests, offset)
           /\ songs' = got
           /\ offset' = off
           /\ sp_result' = IF loop_done(off, page)
                           THEN [kind |-> "ok", playlist |-> Playlist(got, PyStr("Ryan"))]
                           ELSE Pending
    /\ UNCHANGED <<total, lyricVars, createVars, eqVars, interVars, fileVars>>

\* one turn of the while loop, the page request raising: the exception leaves
\* parse_spotify_url, the songs gathered so far are dropped
PageFails ==
    /\ sp_result = Pending
    /\ requests' = Append(requests, offset)
    /\ sp_result' = Raise("ProviderError")
    /\ UNCHANGED <<total, offset, songs, lyricVars, createVars, eqVars, interVars, fileVars>>

SpotifyNext == PageServed \/ PageFails

SpecSpotify == SpotifyInit /\ [][SpotifyNext]_vars

\* C9: each page is requested at the offset equal to the number of items
\* received so far; no page is requested once that offset has reached the
\* total; a returned playlist holds every track once, in the provider's order;
\* a failed page request returns no playlist.
C9_PagesCoverEveryTrackOnce ==
    /\ \A k \in 1..Len(requests) :
          /\ requests[k] = Min(total, 100 * (k - 1))
          /\ k > 1 => requests[k] < total
    /\ sp_result = Pending => offset = Len(songs)
    /\ sp_result.kind = "ok" =>
          /\ offset >= total
          /\ Len(sp_result.playlist.songs) = total
          /\ \A i \in 1..total :
                sp_result.playlist.songs[i] =
                    Song(<<"x">>,
                         IF i % 2 = 1 THEN <<"a">> ELSE <<"a", ",", " ", "b">>,
                         <<"b">>, i)
    /\ sp_result.kind = "raise" => DOMAIN sp_result = {"kind", "error"}

\* 201 tracks fetched in three pages, at offsets 0, 100 and 200
C9_Witness ==
    /\ sp_result.kind = "ok"
    /\ total > 200
    /\ requests = <<0, 100, 200>>
    /\ Len(sp_result.playlist.songs) = total

====
